---- MODULE Spec2Model ----
(***************************************************************************)
(* Model of the JNI entry point Java_com_example_rustapp_NativeLib_hello   *)
(* (rust-android-app/src/lib.rs).  The body of the function is two calls:  *)
(*                                                                         *)
(*   android_logger::init_once(Config::default()                           *)
(*                               .with_max_level(LevelFilter::Debug));     *)
(*   log::info!("Hello from Rust!");                                       *)
(*                                                                         *)
(* Both calls act on process-wide state owned by the `log` and             *)
(* `android_logger` crates.  The steps of the two calls are modelled at    *)
(* the granularity of the atomic operations those crates perform:          *)
(*                                                                         *)
(*   init_once(config):                                                    *)
(*     logger = ANDROID_LOGGER.get_or_init(|| AndroidLogger::new(config))  *)
(*     if let Err(e) = log::set_logger(logger)                             *)
(*          { log::debug!("android_logger: log::set_logger failed: ..") }  *)
(*     else { log::set_max_level(config.log_level) }                       *)
(*   log::set_logger:                                                      *)
(*     CAS STATE UNINITIALIZED -> INITIALIZING; on success store LOGGER,   *)
(*     store STATE = INITIALIZED, Ok; on Err(INITIALIZING) spin until the  *)
(*     state leaves INITIALIZING, Err; otherwise Err.                      *)
(*   log::info!/debug!:                                                    *)
(*     if level <= max_level() { logger().log(record) }, where logger()    *)
(*     is the no-op logger unless STATE = INITIALIZED.                     *)
(***************************************************************************)
EXTENDS Integers, Sequences, FiniteSets, TLC

(* ----------------------------- bounds --------------------------------- *)
NumThreads == 2
MaxCalls == 2
MaxHandle == 2

Threads == 1..NumThreads
Handles == 1..MaxHandle

(* --------------------------- severities ------------------------------- *)
\* log::LevelFilter / log::Level as ordered ranks (Off < Error < ... < Trace)
LevelRank ==
  [Off |-> 0, Error |-> 1, Warn |-> 2, Info |-> 3, Debug |-> 4, Trace |-> 5]

Levels == {"Error", "Warn", "Info", "Debug", "Trace"}

HelloText == "Hello from Rust!"
SetLoggerFailedText == "android_logger: log::set_logger failed"

Unset == [set |-> FALSE]

\* Config::default().with_max_level(log::LevelFilter::Debug)
ConfigInfoLevel == [set |-> TRUE, log_level |-> "Info"]
Config == [set |-> TRUE, log_level |-> "Debug"]

VARIABLES
  pc,             \* pc[t]: position of thread t inside the entry point
  calls,          \* calls[t]: number of calls thread t has started
  args,           \* args[t]: the (_env, _class) handles of the running call
  trace,          \* trace[t]: completed statements of the running call
  ANDROID_LOGGER, \* android_logger's OnceLock<AndroidLogger>
  LOG_STATE,          \* log::LOG_STATE
  LOGGER,         \* log::LOGGER
  MAX_LEVEL,      \* log::MAX_LOG_LEVEL_FILTER
  installs,       \* number of times a logger was installed into LOGGER
  records,        \* records captured by the attached log consumer
  attached        \* whether a log consumer is attached to the platform log

vars == <<pc, calls, args, trace, ANDROID_LOGGER, LOG_STATE, LOGGER, MAX_LEVEL,
          installs, records, attached>>

NoArgs == [env |-> 0, class |-> 0]

\* the runtime-environment handle is the calling thread's own JNIEnv
JNIEnv(t) == t

(* ------------------------- pure operators ----------------------------- *)
\* first statement of the function body: init_once(...)
EntryPcSkipInit == "info"
EntryPc == "get_or_init"

\* OnceLock::get_or_init: the first caller's value is stored, later ones kept
GetOrInit(cell, config) == IF cell.set THEN cell ELSE config

\* set_logger's spin loop `while LOG_STATE == INITIALIZING {}` has ended
SpinDoneNoWait(state) == TRUE
SpinDoneNever(state) == state = "UNINITIALIZED"
SpinDone(state) == state # "INITIALIZING"

\* init_once on Err from set_logger: the error is only logged at debug level
OnSetLoggerErrUnwrap == "fault"
OnSetLoggerErr == "info"

\* log::logger(): the installed logger once LOG_STATE is INITIALIZED, else no-op
logger == IF LOG_STATE = "INITIALIZED" THEN LOGGER ELSE "nop"

\* AndroidLogger::enabled: level <= config.log_level
Enabled(level) ==
  /\ ANDROID_LOGGER.set
  /\ LevelRank[level] <= LevelRank[ANDROID_LOGGER.log_level]

\* the platform log write reaches a consumer only when one is attached
CaptureAlways(recs, rec) == Append(recs, rec)
Capture(recs, rec) == IF attached THEN Append(recs, rec) ELSE recs

\* log!(level, text): gate on max_level(), then logger().log(record)
Log(recs, level, text) ==
  IF /\ LevelRank[level] <= LevelRank[MAX_LEVEL]
     /\ logger = "android"
     /\ Enabled(level)
  THEN Capture(recs, [level |-> level, text |-> text])
  ELSE recs

\* the record of log::info!("Hello from Rust!"); _env and _class are unused
InfoTextFromClass(a) == IF a.class = 1 THEN HelloText ELSE "Hello from class"
InfoText(a) == HelloText

(* ------------------------------ Init ---------------------------------- *)
Init ==
  /\ pc = [t \in Threads |-> "idle"]
  /\ calls = [t \in Threads |-> 0]
  /\ args = [t \in Threads |-> NoArgs]
  /\ trace = [t \in Threads |-> <<>>]
  /\ ANDROID_LOGGER = Unset
  /\ LOG_STATE = "UNINITIALIZED"
  /\ LOGGER = "nop"
  /\ MAX_LEVEL = "Off"
  /\ installs = 0
  /\ records = <<>>
  /\ attached \in BOOLEAN

(* ----------------------------- actions -------------------------------- *)
\* the managed runtime invokes the native symbol on thread t
Call(t) ==
  /\ pc[t] = "idle"
  /\ calls[t] < MaxCalls
  /\ \E c \in Handles :
       args' = [args EXCEPT ![t] = [env |-> JNIEnv(t), class |-> c]]
  /\ pc' = [pc EXCEPT ![t] = EntryPc]
  /\ calls' = [calls EXCEPT ![t] = @ + 1]
  /\ UNCHANGED <<trace, ANDROID_LOGGER, LOG_STATE, LOGGER, MAX_LEVEL, installs,
                 records, attached>>

\* init_once: ANDROID_LOGGER.get_or_init(|| AndroidLogger::new(config))
GetOrInitStep(t) ==
  /\ pc[t] = "get_or_init"
  /\ ANDROID_LOGGER' = GetOrInit(ANDROID_LOGGER, Config)
  /\ pc' = [pc EXCEPT ![t] = "set_logger"]
  /\ UNCHANGED <<calls, args, trace, LOG_STATE, LOGGER, MAX_LEVEL, installs,
                 records, attached>>

\* log::set_logger: compare_exchange(UNINITIALIZED, INITIALIZING)
SetLogger(t) ==
  /\ pc[t] = "set_logger"
  /\ IF LOG_STATE = "UNINITIALIZED"
     THEN /\ LOG_STATE' = "INITIALIZING"
          /\ pc' = [pc EXCEPT ![t] = "store_logger"]
     ELSE /\ LOG_STATE' = LOG_STATE
          /\ pc' = [pc EXCEPT ![t] =
                      IF LOG_STATE = "INITIALIZING" THEN "spin" ELSE "set_failed"]
  /\ UNCHANGED <<calls, args, trace, ANDROID_LOGGER, LOGGER, MAX_LEVEL,
                 installs, records, attached>>

\* log::set_logger, winner: LOGGER = make_logger()
StoreLogger(t) ==
  /\ pc[t] = "store_logger"
  /\ LOGGER' = "android"
  /\ installs' = installs + 1
  /\ pc' = [pc EXCEPT ![t] = "store_state"]
  /\ UNCHANGED <<calls, args, trace, ANDROID_LOGGER, LOG_STATE, MAX_LEVEL,
                 records, attached>>

\* log::set_logger, winner: LOG_STATE.store(INITIALIZED); returns Ok(())
StoreState(t) ==
  /\ pc[t] = "store_state"
  /\ LOG_STATE' = "INITIALIZED"
  /\ pc' = [pc EXCEPT ![t] = "set_max_level"]
  /\ UNCHANGED <<calls, args, trace, ANDROID_LOGGER, LOGGER, MAX_LEVEL,
                 installs, records, attached>>

\* log::set_logger, loser that saw INITIALIZING: spin, then Err
Spin(t) ==
  /\ pc[t] = "spin"
  /\ SpinDone(LOG_STATE)
  /\ pc' = [pc EXCEPT ![t] = "set_failed"]
  /\ UNCHANGED <<calls, args, trace, ANDROID_LOGGER, LOG_STATE, LOGGER, MAX_LEVEL,
                 installs, records, attached>>

\* init_once, Err branch: log::debug!("android_logger: log::set_logger failed")
SetFailed(t) ==
  /\ pc[t] = "set_failed"
  /\ records' = Log(records, "Debug", SetLoggerFailedText)
  /\ pc' = [pc EXCEPT ![t] = OnSetLoggerErr]
  /\ trace' = [trace EXCEPT ![t] = Append(@, "init_once")]
  /\ UNCHANGED <<calls, args, ANDROID_LOGGER, LOG_STATE, LOGGER, MAX_LEVEL,
                 installs, attached>>

\* init_once, Ok branch: log::set_max_level(config.log_level)
SetMaxLevel(t) ==
  /\ pc[t] = "set_max_level"
  /\ MAX_LEVEL' = Config.log_level
  /\ pc' = [pc EXCEPT ![t] = "info"]
  /\ trace' = [trace EXCEPT ![t] = Append(@, "init_once")]
  /\ UNCHANGED <<calls, args, ANDROID_LOGGER, LOG_STATE, LOGGER, installs,
                 records, attached>>

\* log::info!("Hello from Rust!")
InfoStep(t) ==
  /\ pc[t] = "info"
  /\ records' = Log(records, "Info", InfoText(args[t]))
  /\ pc' = [pc EXCEPT ![t] = "ret"]
  /\ trace' = [trace EXCEPT ![t] = Append(@, "info")]
  /\ UNCHANGED <<calls, args, ANDROID_LOGGER, LOG_STATE, LOGGER, MAX_LEVEL,
                 installs, attached>>

\* the function returns to the managed runtime
Return(t) ==
  /\ pc[t] = "ret"
  /\ pc' = [pc EXCEPT ![t] = "idle"]
  /\ args' = [args EXCEPT ![t] = NoArgs]
  /\ trace' = [trace EXCEPT ![t] = <<>>]
  /\ UNCHANGED <<calls, ANDROID_LOGGER, LOG_STATE, LOGGER, MAX_LEVEL, installs,
                 records, attached>>

\* the statements of one running call on thread t
Body(t) ==
  \/ GetOrInitStep(t)
  \/ SetLogger(t)
  \/ StoreLogger(t)
  \/ StoreState(t)
  \/ Spin(t)
  \/ SetFailed(t)
  \/ SetMaxLevel(t)
  \/ InfoStep(t)
  \/ Return(t)

Next == \E t \in Threads : Call(t) \/ Body(t)

Spec == Init /\ [][Next]_vars

\* every thread that is inside the function keeps being scheduled
FairSpec == Spec /\ \A t \in Threads : WF_vars(Body(t))

(* --------------------------- derived state ---------------------------- *)
Running(t) == pc[t] # "idle"
Returned(t) == calls[t] - (IF Running(t) THEN 1 ELSE 0)

RECURSIVE SumReturned(_)
SumReturned(n) == IF n = 0 THEN 0 ELSE Returned(n) + SumReturned(n - 1)
TotalReturned == SumReturned(NumThreads)

AllIdle == \A t \in Threads : ~Running(t)
Initialized == LOG_STATE = "INITIALIZED" /\ ANDROID_LOGGER.set
HelloRecord == [level |-> "Info", text |-> HelloText]
FullTrace == <<"init_once", "info">>

(* ------------------------------ claims -------------------------------- *)

\* C1: whatever the number of calls and their interleaving, no call reaches
\* a fault: every call is either still running inside the function or has
\* returned normally (the thread is back in the runtime).
C1_NoFault ==
  \A t \in Threads :
    pc[t] \in {"idle", "get_or_init", "set_logger", "store_logger",
               "store_state", "spin", "set_failed", "set_max_level",
               "info", "ret"}

\* a repeated call (whose set_logger failed) is returning while another
\* thread is still inside the function
C1_Witness ==
  \E t, u \in Threads :
    /\ t # u
    /\ pc[t] = "ret" /\ calls[t] = MaxCalls
    /\ Running(u)

\* C2: once a call has returned the logging backend is marked initialized,
\* and the mark is never taken back by any later step of any call.
C2_InitializedStays ==
  /\ [](TotalReturned >= 1 => Initialized)
  /\ [][Initialized => Initialized']_vars

\* a call that lost the race for set_logger has returned while the winner
\* is still inside the function
C2_Witness ==
  \E t, u \in Threads :
    /\ t # u
    /\ Returned(t) >= 1 /\ installs = 1
    /\ pc[u] \in {"set_max_level", "info"} /\ calls[u] = 1
    /\ Initialized

\* C3: with a consumer attached, after N completed calls exactly N records
\* have been captured, each the informational record "Hello from Rust!".
C3_ExactlyOneRecordPerCall ==
  (attached /\ AllIdle) =>
     /\ Len(records) = TotalReturned
     /\ \A i \in 1..Len(records) : records[i] = HelloRecord

\* C4: the initialization effect happens exactly once per process, and two
\* calls made in sequence leave two identical records.
C4_OneInitTwoIdenticalRecords ==
  /\ installs <= 1
  /\ TotalReturned >= 1 => installs = 1
  /\ (attached /\ AllIdle /\ TotalReturned = 2
        /\ \E t \in Threads : calls[t] = 2)
       => records = <<HelloRecord, HelloRecord>>

C6_EmissionSeesInitializedSink ==
  \A t \in Threads :
    pc[t] = "info" =>
      /\ LOG_STATE = "INITIALIZED"
      /\ LOGGER = "android"
      /\ MAX_LEVEL = "Debug"

C8_EveryCallReturns ==
  \A t \in Threads : (pc[t] # "idle") ~> (pc[t] = "idle")

\* a call is spinning in set_logger while another thread's initialization
\* is in progress
C8_Witness ==
  \E t, u \in Threads :
    /\ pc[t] = "spin"
    /\ pc[u] \in {"store_logger", "store_state"}

\* C9: each call does init_once first and the emission second, once each.
C9_InitThenLog ==
  \A t \in Threads :
    /\ trace[t] \in {<<>>, <<"init_once">>, FullTrace}
    /\ pc[t] = "info" => trace[t] = <<"init_once">>
    /\ pc[t] = "ret" => trace[t] = FullTrace

\* the call that installed the logger and a call whose set_logger failed
\* have both reached their return
C9_Witness ==
  \E t, u \in Threads :
    /\ pc[t] = "ret" /\ trace[t] = FullTrace /\ calls[t] = 1
    /\ pc[u] = "ret" /\ trace[u] = FullTrace /\ installs = 1 /\ t # u

\* C10: a call leaves its two handles and everything outside the logging
\* sink unchanged, and what it emits does not depend on the handles.
C10_HandlesUnused ==
  /\ [][\A t \in Threads :
          (pc[t] # "idle" /\ pc'[t] # "idle") => args'[t] = args[t]]_vars
  /\ [][attached' = attached]_vars
  /\ [](\A i \in 1..Len(records) :
          records[i].level = "Info" => records[i] = HelloRecord)

\* a call made with the other handle values has emitted its record
C10_Witness ==
  \E t \in Threads :
    /\ pc[t] = "ret"
    /\ args[t] = [env |-> JNIEnv(t), class |-> MaxHandle] /\ t # 1
    /\ records = <<HelloRecord>>
    /\ \A u \in Threads \ {t} : calls[u] = 0
====
